---- MODULE Spec2Model ----
(***************************************************************************)
(* Model of the Gmail incremental synchronisation engine of the            *)
(* ai_email_categorizer backend: the push webhook (app/routers/webhook.py),*)
(* the ingestion service (app/services/email_ingestion.py), the Gmail      *)
(* client (app/services/gmail_client.py), the token refresher              *)
(* (app/services/token_refresh.py), the OAuth service                      *)
(* (app/services/google_oauth.py) and the stores (app/db).                 *)
(*                                                                         *)
(* Every coroutine is cut at its await points and at its calls to the      *)
(* provider, so that concurrent deliveries interleave as asyncio (or       *)
(* several workers) lets them.  A history id is a positive integer; 0      *)
(* stands for None / an absent value (Python falsy).                       *)
(***************************************************************************)
EXTENDS Integers, Sequences, FiniteSets, TLC

\* ---------------------------------------------------------------- bounds
MaxHist == 3          \* the provider issues history ids 1..MaxHist
MaxMsgId == 2         \* gmail message ids are 1..MaxMsgId
MaxOps == 3           \* requests (webhook deliveries, watch set-ups) started
MaxAi == 2             \* the per-message counter of AI calls saturates here
MaxPosts == 3          \* the per-request counter of token requests saturates here
MaxTok == 3            \* refresh tokens the provider issues
MaxStates == 2         \* OAuth states the flow generates
MaxParts == 2          \* parts of a message payload
MaxSub == 1            \* parts of a nested multipart part

\* crashlens_retry_integration.py, costs in cents
MaxRetries == 3         \* should_allow_retry: current_retry_count >= 3
DefaultMaxCost == 20    \* max_retry_cost_per_trace: 0.20
FailedCost == 1         \* cost of a failed attempt: 0.01
CheapCost == 2          \* cost of a successful gpt-3.5 call: 0.02
FullCost == 8           \* cost of any other successful call: 0.08

Users == {"u1", "u2"}
Procs == {1, 2}
NoUser == "nobody"

VARIABLES
    registered,   \* users collection: the clerk_user_ids that have a document
    hidOptional,  \* provider: history responses may come without historyId
    cursor,       \* users.last_history_id per user, 0 = not set
    cred,         \* oauth collection: "none", "valid" or "expired" per user
    oauth,        \* oauth collection and provider: the stored refresh_token
                  \* per user (0 = null), whether the provider holds a grant
                  \* of the user, the number of refresh tokens issued
    store,        \* emails collection: the documents [gmail_id, user_id], in
                  \* insertion order
    provHist,     \* provider: current historyId of each mailbox
    provFloor,    \* provider: oldest startHistoryId the mailbox still serves
    mailbox,      \* provider: messages [id, hist] of each mailbox
    aiCalls,      \* classify_email invocations per <<user, gmail_id>>
    ops,          \* number of requests started so far
    proc          \* the in-flight request of each handler slot

vars == <<registered, hidOptional, cursor, cred, oauth, store, provHist, provFloor, mailbox,
          aiCalls, ops, proc>>

provider == <<provHist, provFloor, mailbox>>

\* what no request changes
config == <<registered, hidOptional>>

\* ------------------------------------------------------------- helpers
Max(a, b) == IF a >= b THEN a ELSE b
Min(a, b) == IF a <= b THEN a ELSE b

RECURSIVE SortByHist(_)
\* the messages of a set as a sequence, oldest history id first
SortByHist(S) ==
    IF S = {} THEN <<>>
    ELSE LET m == CHOOSE x \in S : \A y \in S : x.hist <= y.hist
         IN  <<m>> \o SortByHist(S \ {m})

RECURSIVE Reverse(_)
Reverse(s) == IF s = <<>> THEN <<>> ELSE Reverse(Tail(s)) \o <<Head(s)>>

\* history.list(startHistoryId = start, historyTypes = ['messageAdded']):
\* the messages added after start, in history order
HistoryList(u, start) ==
    SortByHist({m \in mailbox[u] : m.hist > start})

\* messages.list(labelIds = ['UNREAD'], maxResults = n): newest first, at
\* most n of them (every message of the modelled mailbox stays unread)
MessagesList(u, n) ==
    LET all == Reverse(SortByHist(mailbox[u]))
    IN  SubSeq(all, 1, Min(n, Len(all)))

\* a lookup that never finds the record
already_classified_never(gmail_id) == FALSE

\* MongoDBStorage.already_classified: find_one({"gmail_id": gmail_id})
already_classified(gmail_id) ==
    \E i \in DOMAIN store : store[i].gmail_id = gmail_id

\* save_email line 66: find_one({"gmail_id": ...}) before the insert
save_email_existing(gmail_id) ==
    \E i \in DOMAIN store : store[i].gmail_id = gmail_id

\* an insert into a collection without the unique index
insert_one_noindex(st, rec) == Append(st, rec)

\* insert_one under the unique index on emails.gmail_id: the store after the
\* insert; unchanged when the key exists (DuplicateKeyError)
insert_one(st, rec) ==
    IF \E i \in DOMAIN st : st[i].gmail_id = rec.gmail_id
    THEN st ELSE Append(st, rec)

\* an update that only fills an empty field ($setOnInsert for $set)
set_user_history_id_once(cur, u, h) ==
    IF u \in registered /\ cur[u] = 0 THEN [cur EXCEPT ![u] = h] ELSE cur

\* set_user_history_id: update_one on the user's document ($set); a user
\* without a document matches nothing
set_user_history_id(cur, u, h) ==
    IF u \in registered THEN [cur EXCEPT ![u] = h] ELSE cur

\* get_user_history_id: the stored last_history_id, None without document
get_user_history_id(u) ==
    IF u \in registered THEN cursor[u] ELSE 0

\* a lookup that takes every address for a user
get_user_id_by_email_any(email) == email

\* get_user_id_by_email: users.find_one({"email": email}); every user's
\* email address is modelled by the user id itself
get_user_id_by_email(email) ==
    IF email \in registered THEN email ELSE NoUser

\* a message payload: whether it has the key "parts", its mimeType, its
\* body.data and its parts (each part a payload without has_parts)
NoPayload == [has_parts |-> FALSE, mimeType |-> "", data |-> "", parts |-> <<>>]

\* the locals of classify_email_with_retry_protection and the detector's
\* policy value max_retry_cost_per_trace (costs in cents); attempts counts
\* the simulated API calls, returned is "none" while the loop runs
IdleRetry ==
    [model |-> "None", max_cost_per_trace |-> DefaultMaxCost, retry_count |-> 0,
     total_cost |-> 0, current_model |-> "None", allow |-> FALSE,
     attempts |-> 0, returned |-> "none"]

IdleProc ==
    [pc |-> "idle", op |-> "none", user |-> NoUser, H |-> 0, ctx |-> "none",
     path |-> "none", last |-> 0, cur |-> 0, ids |-> <<>>, emails |-> <<>>,
     count |-> 0, newh |-> 0, status |-> "none",
     \* history of the request, kept for the properties: the cursor values
     \* it wrote, whether a message of its history batch failed, the cursor
     \* the provider rejected, whether it found no cursor, and per sync run
     \* the watermark of an empty delta, the AI calls, the records saved,
     \* the outcome of the last process_and_save_gmail_message call; fp
     \* counts the calls of fetch_and_process_new_emails
     wr |-> <<>>, failed |-> FALSE, rejected |-> 0, first |-> FALSE,
     noopW |-> 0, ai |-> 0, saved |-> 0, res |-> "none", fp |-> 0,
     \* the message ids the webhook's history response listed, and whether
     \* none of them was in the store when it was listed
     listed |-> {}, fresh |-> FALSE,
     \* whether get_gmail_service_for_user has returned a service to the
     \* request, how often the request called the token endpoint and
     \* whether the endpoint rejected one of these calls
     authed |-> FALSE, posts |-> 0, refused |-> FALSE,
     \* the error field of the response body
     err |-> "",
     \* whether a message of the request could not be fetched, classified
     \* or written
     fault |-> FALSE,
     \* whether a history response of the request came without historyId,
     \* and whether the request listed the mailbox anew (full resync)
     nohid |-> FALSE, resync |-> FALSE,
     \* the number of cursor writes of the request before its current sync
     \* run (call of fetch_and_process_new_emails) began
     wr0 |-> 0,
     \* the number of records in the store when the delivery arrived
     st0 |-> 0,
     \* validate_and_clear_oauth_state: the state parameter and whether
     \* find_one returned a document
     state |-> 0, doc |-> FALSE,
     \* classify_email_with_retry_protection: its locals
     retry |-> IdleRetry,
     \* extract_email_body: its argument and its return value
     payload |-> NoPayload, body |-> "None"]

\* the oauth documents at the start: a user with a credential has been
\* through the consent flow once and holds the first refresh token
InitOAuth ==
    [rtoken |-> [u \in Users |-> IF cred[u] # "none" THEN 1 ELSE 0],
     granted |-> [u \in Users |-> cred[u] # "none"],
     issued |-> 1,
     \* the oauth_states collection, the states whose expires_at has
     \* passed, the number of states generated, and how often
     \* validate_and_clear_oauth_state returned True for each state
     states |-> {}, expired |-> {}, generated |-> 0,
     accepted |-> [s \in 1..MaxStates |-> 0]]

Init ==
    /\ registered = {"u1"}
    /\ hidOptional = FALSE
    /\ cursor = [u \in Users |-> 0]
    /\ cred = [u \in Users |-> IF u \in registered THEN "valid" ELSE "none"]
    /\ oauth = InitOAuth
    /\ store = <<>>
    /\ provHist = [u \in Users |-> 1]
    /\ provFloor = [u \in Users |-> 1]
    /\ mailbox = [u \in Users |-> {}]
    /\ aiCalls = [k \in Users \X (1..MaxMsgId) |-> 0]
    /\ ops = 0
    /\ proc = [p \in Procs |-> IdleProc]

\* ------------------------------------------------- provider and clock
\* a new message arrives in a mailbox: the provider issues the next history
\* id; message ids grow within a mailbox
ProviderAddMessage(u) ==
    /\ u \in registered
    /\ provHist[u] < MaxHist
    /\ \E id \in 1..MaxMsgId :
          /\ \A m \in mailbox[u] : m.id < id
          /\ mailbox' = [mailbox EXCEPT
                            ![u] = @ \cup {[id |-> id, hist |-> provHist[u] + 1]}]
    /\ provHist' = [provHist EXCEPT ![u] = @ + 1]
    /\ UNCHANGED <<config, oauth, cursor, cred, store, provFloor, aiCalls, ops, proc>>

\* a change that is not a messageAdded (label change, read, delete): the
\* history id moves, no message is listed
ProviderTouch(u) ==
    /\ u \in registered
    /\ provHist[u] < MaxHist
    /\ provHist' = [provHist EXCEPT ![u] = @ + 1]
    /\ UNCHANGED <<config, oauth, cursor, cred, store, provFloor, mailbox, aiCalls, ops, proc>>

\* the provider drops its oldest history records: older start ids are
\* rejected from now on
ProviderExpireHistory(u) ==
    /\ u \in registered
    /\ provFloor[u] < provHist[u]
    /\ provFloor' = [provFloor EXCEPT ![u] = @ + 1]
    /\ UNCHANGED <<config, oauth, cursor, cred, store, provHist, mailbox, aiCalls, ops, proc>>

\* the stored expires_at passes
TokenExpire(u) ==
    /\ cred[u] = "valid"
    /\ cred' = [cred EXCEPT ![u] = "expired"]
    /\ UNCHANGED <<config, oauth, cursor, store, provider, aiCalls, ops, proc>>

\* ----------------------------------------------- control flow helpers
\* the request is answered
Respond(r, status) ==
    [r EXCEPT !.pc = "done", !.status = status, !.ids = <<>>, !.emails = <<>>]

\* fetch_and_process_new_emails is entered from call site path
EnterFetch(r, path) ==
    [r EXCEPT !.pc = "fp_read", !.path = path, !.ctx = "fp", !.ids = <<>>,
              !.emails = <<>>, !.count = 0, !.newh = 0, !.fp = r.fp + 1,
              !.noopW = 0, !.ai = 0, !.saved = 0, !.res = "none",
              !.wr0 = Len(r.wr)]

\* get_latest_emails returns lst to fetch_and_process_new_emails
ReturnEmails(r, lst) ==
    [r EXCEPT !.pc = "fp_loop", !.emails = lst, !.ids = <<>>]

\* a handler that goes on as if the failed call had returned
Raise_ignored(r) ==
    CASE r.ctx = "webhook" -> [r EXCEPT !.pc = "w_read"]
      [] r.ctx \in {"inc", "full"} -> ReturnEmails(r, <<>>)
      [] OTHER -> Respond(r, "false")

\* an exception leaves the current function: the enclosing handler decides
Raise(r) ==
    CASE r.ctx = "webhook" -> EnterFetch([r EXCEPT !.count = 0], "159")
      [] r.ctx \in {"inc", "full"} -> ReturnEmails(r, <<>>)
      [] OTHER -> Respond(r, "false")

\* get_gmail_service_for_user returned a service
ServiceReady(r) ==
    LET t == [r EXCEPT !.authed = TRUE] IN
    CASE r.ctx = "webhook" -> [t EXCEPT !.pc = "w_read"]
      [] r.ctx = "inc" -> [t EXCEPT !.pc = "inc_list"]
      [] r.ctx = "full" -> [t EXCEPT !.pc = "full_list"]
      [] OTHER -> [t EXCEPT !.pc = "watch_call"]

\* fetch_and_process_new_emails returns processed_count to the webhook
FetchReturn(r) ==
    IF r.path = "149"
    THEN \* line 152 reads current_history_id, never bound on this branch:
         \* UnboundLocalError, caught at line 156
         EnterFetch(r, "159")
    ELSE Respond(r, "200")

\* a handler that always records the historyId of the notification
LoopEnd_notified(r) ==
    CASE r.ctx = "webhook" -> [r EXCEPT !.pc = "w_fallback_set"]
      [] r.ctx = "inc" ->
            IF r.cur # 0 THEN [r EXCEPT !.pc = "inc_set"]
            ELSE ReturnEmails(r, r.emails)
      [] OTHER -> ReturnEmails(r, r.emails)

\* the message loop is over
LoopEnd(r) ==
    CASE r.ctx = "webhook" ->
            [r EXCEPT !.pc = IF r.cur # 0 THEN "w_set" ELSE "w_fallback_set"]
      [] r.ctx = "inc" ->
            IF r.cur # 0 THEN [r EXCEPT !.pc = "inc_set"]
            ELSE ReturnEmails(r, r.emails)
      [] OTHER -> ReturnEmails(r, r.emails)

\* a loop that leaves out every other message id
NextMsg_skip(r) ==
    LET t == [r EXCEPT !.ids = IF Len(@) > 1 THEN Tail(Tail(@)) ELSE <<>>]
    IN  IF t.ids = <<>> THEN LoopEnd(t) ELSE [t EXCEPT !.pc = "m_get"]

\* the loop goes on to the next message id
NextMsg(r) ==
    LET t == [r EXCEPT !.ids = Tail(r.ids)]
    IN  IF t.ids = <<>> THEN LoopEnd(t) ELSE [t EXCEPT !.pc = "m_get"]

Step(p, r) == proc' = [proc EXCEPT ![p] = r]

\* a new request takes the lowest free handler slot
FreeSlot(p) ==
    /\ proc[p].pc = "idle"
    /\ \A q \in Procs : q < p => proc[q].pc # "idle"

\* ------------------------------------------------ gmail_push_webhook
\* the request body: shape "direct" carries the fields itself, "pubsub"
\* carries them base64-encoded in message.data, "badjson" is no JSON text,
\* "badb64" and "b64text" carry a message.data that does not decode; email
\* and hid are the fields of the notification, NoUser and 0 when absent
Bodies ==
    [shape : {"direct", "pubsub", "badjson", "badb64", "b64text"},
     email : Users \cup {NoUser},
     hid : 0..MaxHist]

\* ------------------------------------------------ the wire format
\* the JSON text of a notification {emailAddress, historyId} as bytes: '{',
\* then 'e' and the digit of the user when the address is present, then 'h'
\* and the digit of the historyId when it is present, then '}'
UserDigit(u) == IF u = "u1" THEN 49 ELSE 50

json_dumps(P) ==
    <<123>> \o (IF P.email # NoUser THEN <<101, UserDigit(P.email)>> ELSE <<>>)
            \o (IF P.hid # 0 THEN <<104, 48 + P.hid>> ELSE <<>>)
            \o <<125>>

\* json.loads of such a text: [ok, val], ok = FALSE where json.loads raises
json_loads(b) ==
    LET bad == [ok |-> FALSE, val |-> [email |-> NoUser, hid |-> 0]]
        n == Len(b)
        hasE == n >= 4 /\ b[2] = 101
        k == IF hasE THEN 4 ELSE 2         \* where the historyId would start
        hasH == n >= k + 2 /\ b[k] = 104
        end == IF hasH THEN k + 2 ELSE k
    IN  IF n < 2 \/ b[1] # 123 \/ b[n] # 125 \/ end # n THEN bad
        ELSE IF hasE /\ b[3] \notin {UserDigit(u) : u \in Users} THEN bad
        ELSE IF hasH /\ b[k + 1] \notin {48 + h : h \in 1..MaxHist} THEN bad
        ELSE [ok |-> TRUE,
              val |-> [email |-> IF hasE
                                 THEN CHOOSE u \in Users : UserDigit(u) = b[3]
                                 ELSE NoUser,
                       hid |-> IF hasH THEN b[k + 1] - 48 ELSE 0]]

\* base64 text as a sequence of 6-bit values, Pad for '='
Pad == 64

RECURSIVE b64encode(_)
\* base64.b64encode
b64encode(b) ==
    IF b = <<>> THEN <<>>
    ELSE IF Len(b) = 1
         THEN <<b[1] \div 4, (b[1] % 4) * 16, Pad, Pad>>
    ELSE IF Len(b) = 2
         THEN <<b[1] \div 4, (b[1] % 4) * 16 + (b[2] \div 16),
                (b[2] % 16) * 4, Pad>>
    ELSE <<b[1] \div 4, (b[1] % 4) * 16 + (b[2] \div 16),
           (b[2] % 16) * 4 + (b[3] \div 64), b[3] % 64>>
         \o b64encode(SubSeq(b, 4, Len(b)))

RECURSIVE b64decode(_)
\* a decoder that hands the text back undecoded
b64decode_raw(s) ==
    [ok |-> TRUE, val |-> s]

\* base64.b64decode: [ok, val], ok = FALSE where it raises binascii.Error
\* (incorrect padding)
b64decode(s) ==
    LET bad == [ok |-> FALSE, val |-> <<>>] IN
    IF s = <<>> THEN [ok |-> TRUE, val |-> <<>>]
    ELSE IF Len(s) < 4 \/ s[1] = Pad \/ s[2] = Pad THEN bad
    ELSE LET b1 == s[1] * 4 + (s[2] \div 16)
             b2 == (s[2] % 16) * 16 + (s[3] \div 4)
             b3 == (s[3] % 4) * 64 + s[4]
             rest == b64decode(SubSeq(s, 5, Len(s)))
         IN  IF s[3] = Pad
             THEN IF s[4] = Pad /\ Len(s) = 4
                  THEN [ok |-> TRUE, val |-> <<b1>>] ELSE bad
             ELSE IF s[4] = Pad
             THEN IF Len(s) = 4
                  THEN [ok |-> TRUE, val |-> <<b1, b2>>] ELSE bad
             ELSE IF rest.ok
                  THEN [ok |-> TRUE, val |-> <<b1, b2, b3>> \o rest.val]
                  ELSE bad

\* the notification a body carries
Payload(body) == [email |-> body.email, hid |-> body.hid]

\* message.data of a Pub/Sub body: the base64 text of the notification for
\* shape "pubsub", a text cut short for "badb64", the base64 text of a cut
\* JSON text for "b64text"
MessageData(body) ==
    LET text == b64encode(json_dumps(Payload(body))) IN
    CASE body.shape = "badb64" -> Tail(text)
      [] body.shape = "b64text" -> b64encode(Tail(json_dumps(Payload(body))))
      [] OTHER -> text

\* lines 57-69: emailAddress and historyId of webhook_data; the address
\* falls back to the X-Goog-Channel-Token header, then to the top level of
\* the body
Extract(webhook_data, header, top) ==
    LET email == IF webhook_data.email # NoUser THEN webhook_data.email
                 ELSE IF header # NoUser THEN header ELSE top
    IN  IF email = NoUser
        THEN [err |-> "No email address found", email |-> NoUser, hid |-> 0]
        ELSE [err |-> "", email |-> email, hid |-> webhook_data.hid]

\* lines 31-69: what the handler extracts from the body and the
\* X-Goog-Channel-Token header: [err, email, hid]
DecodeWebhook(body, header) ==
    CASE body.shape = "badjson" ->
            [err |-> "Invalid JSON payload", email |-> NoUser, hid |-> 0]
      [] body.shape = "direct" ->
            Extract(Payload(body), header, body.email)
      [] OTHER ->
            LET bytes == b64decode(MessageData(body))
                json == IF bytes.ok THEN json_loads(bytes.val)
                        ELSE [ok |-> FALSE, val |-> Payload(body)]
            IN  IF json.ok THEN Extract(json.val, header, NoUser)
                ELSE [err |-> "Failed to decode Pub/Sub message",
                      email |-> NoUser, hid |-> 0]

\* lines 24-84: the request as the handler leaves its first part: answered
\* with an error, or on its way with the user and the historyId
WebhookEntry(body, header) ==
    LET d == DecodeWebhook(body, header)
        u == get_user_id_by_email(d.email)
        r == [IdleProc EXCEPT !.op = "webhook", !.user = u, !.H = d.hid]
    IN  IF d.err # ""
        THEN Respond([r EXCEPT !.user = NoUser, !.err = d.err], "400")
        ELSE IF u = NoUser
        THEN Respond([r EXCEPT !.err = "User not found"], "404")
        ELSE IF d.hid # 0
        THEN [r EXCEPT !.pc = "svc_creds", !.ctx = "webhook"]
        ELSE EnterFetch(r, "163")

\* lines 24-84: a delivery arrives, is decoded and resolved to a user
gmail_push_webhook(p) ==
    /\ FreeSlot(p)
    /\ ops < MaxOps
    /\ \E body \in Bodies, header \in Users \cup {NoUser} :
          LET d == DecodeWebhook(body, header)
          IN  /\ d.email \in Users => d.hid <= provHist[d.email]
              /\ body.shape \in {"badjson", "badb64", "b64text"} =>
                    body.email = NoUser /\ body.hid = 0 /\ header = NoUser
              /\ Step(p, [WebhookEntry(body, header) EXCEPT !.st0 = Len(store)])
    /\ ops' = ops + 1
    /\ UNCHANGED <<config, oauth, cursor, cred, store, provider, aiCalls>>

\* the response has been sent; the slot is free again
Finish(p) ==
    /\ proc[p].pc = "done"
    /\ Step(p, IdleProc)
    /\ UNCHANGED <<config, oauth, cursor, cred, store, provider, aiCalls, ops>>

\* ----------------------------------------- get_gmail_service_for_user
\* google_oauth_service.get_user_credentials: a Credentials object only for
\* a stored, unexpired credential
get_user_credentials(u) == cred[u] = "valid"

\* line 44: the first look at the stored credential
svc_creds(p) ==
    LET r == proc[p] IN
    /\ r.pc = "svc_creds"
    /\ Step(p, IF get_user_credentials(r.user) THEN ServiceReady(r)
               ELSE [r EXCEPT !.pc = "tok_expired"])
    /\ UNCHANGED <<config, oauth, cursor, cred, store, provider, aiCalls, ops>>

\* get_valid_access_token line 121, is_token_expired: expired or missing
tok_expired(p) ==
    LET r == proc[p] IN
    /\ r.pc = "tok_expired"
    /\ Step(p, IF cred[r.user] # "valid" THEN [r EXCEPT !.pc = "tok_find"]
               ELSE [r EXCEPT !.pc = "tok_read"])
    /\ UNCHANGED <<config, oauth, cursor, cred, store, provider, aiCalls, ops>>

\* refresh_gmail_token lines 23-36: the stored refresh token is read
tok_find(p) ==
    LET r == proc[p] IN
    /\ r.pc = "tok_find"
    /\ Step(p, IF cred[r.user] = "none" \/ oauth.rtoken[r.user] = 0 THEN Raise(r)
               ELSE [r EXCEPT !.pc = "tok_post"])
    /\ UNCHANGED <<config, oauth, cursor, cred, store, provider, aiCalls, ops>>

\* refresh_gmail_token lines 39-58: the request to the token endpoint and
\* its answer
tok_post(p) ==
    LET r == proc[p] IN
    /\ r.pc = "tok_post"
    /\ \E granted \in BOOLEAN :
          LET t == [r EXCEPT !.posts = Min(@ + 1, MaxPosts)]
          IN  Step(p, IF granted THEN [t EXCEPT !.pc = "tok_update"]
                      ELSE Raise([t EXCEPT !.refused = TRUE]))
    /\ UNCHANGED <<config, oauth, cursor, cred, store, provider, aiCalls, ops>>

\* the new access token is written to every credentials document
tok_update_many(p) ==
    LET r == proc[p] IN
    /\ r.pc = "tok_update"
    /\ cred' = [u \in Users |-> IF cred[u] = "none" THEN "none" ELSE "valid"]
    /\ Step(p, [r EXCEPT !.pc = "svc_creds2"])
    /\ UNCHANGED <<config, oauth, cursor, store, provider, aiCalls, ops>>

\* refresh_gmail_token lines 62-75: the new access token is stored
tok_update(p) ==
    LET r == proc[p] IN
    /\ r.pc = "tok_update"
    /\ cred' = [cred EXCEPT ![r.user] = IF @ = "none" THEN "none" ELSE "valid"]
    /\ Step(p, [r EXCEPT !.pc = "svc_creds2"])
    /\ UNCHANGED <<config, oauth, cursor, store, provider, aiCalls, ops>>

\* get_valid_access_token lines 126-133: the token was not expired
tok_read(p) ==
    LET r == proc[p] IN
    /\ r.pc = "tok_read"
    /\ Step(p, IF cred[r.user] = "none" THEN Raise(r)
               ELSE [r EXCEPT !.pc = "svc_creds2"])
    /\ UNCHANGED <<config, oauth, cursor, cred, store, provider, aiCalls, ops>>

\* lines 51-57: the credential is read again after the refresh
svc_creds2(p) ==
    LET r == proc[p] IN
    /\ r.pc = "svc_creds2"
    /\ Step(p, IF get_user_credentials(r.user) THEN ServiceReady(r) ELSE Raise(r))
    /\ UNCHANGED <<config, oauth, cursor, cred, store, provider, aiCalls, ops>>

\* ------------------------------------- gmail_push_webhook, with historyId
HistoryMaxResults == 10    \* webhook.py line 97, maxResults of history.list
FetchMaxResults == 10      \* email_ingestion.py line 7, max_results

Take(s, n) == SubSeq(s, 1, Min(n, Len(s)))

\* line 87: last_history_id = await get_user_history_id(user_id)
w_read(p) ==
    LET r == proc[p]
        last == get_user_history_id(r.user)
    IN
    /\ r.pc = "w_read"
    /\ Step(p, IF last # 0 THEN [r EXCEPT !.pc = "w_list", !.last = last]
               ELSE EnterFetch([r EXCEPT !.first = TRUE], "149"))
    /\ UNCHANGED <<config, oauth, cursor, cred, store, provider, aiCalls, ops>>

\* lines 93-123: history.list from the stored cursor.  The provider rejects
\* a start id it no longer holds (HttpError); otherwise it answers with the
\* messages added since, and its current historyId (hasHid: the answer
\* carries the field, as every answer of the Gmail API does)
w_list(p) ==
    LET r == proc[p] IN
    /\ r.pc = "w_list"
    /\ IF r.last < provFloor[r.user]
       THEN Step(p, Raise([r EXCEPT !.rejected = r.last]))
       ELSE \E hasHid \in (IF hidOptional THEN BOOLEAN ELSE {TRUE}) :
               LET cur == IF hasHid THEN provHist[r.user] ELSE 0
                   ids == Take(HistoryList(r.user, r.last), HistoryMaxResults)
                   t == [r EXCEPT !.cur = cur, !.ids = ids,
                                  !.nohid = (@ \/ ~hasHid),
                                  !.listed = {ids[i].id : i \in DOMAIN ids},
                                  !.fresh = \A i \in DOMAIN ids :
                                               ~already_classified(ids[i].id)]
               IN  Step(p, IF ids = <<>>
                           THEN LoopEnd([t EXCEPT !.noopW = cur])
                           ELSE [t EXCEPT !.pc = "m_get"])
    /\ UNCHANGED <<config, oauth, cursor, cred, store, provider, aiCalls, ops>>

\* lines 113-115 and 143-145: the cursor is set to the response's historyId;
\* line 152 then finds current_history_id set and the handler answers
w_set(p) ==
    LET r == proc[p] IN
    /\ r.pc = "w_set"
    /\ cursor' = set_user_history_id(cursor, r.user, r.cur)
    /\ Step(p, Respond([r EXCEPT !.wr = Append(@, r.cur)], "200"))
    /\ UNCHANGED <<config, oauth, cred, store, provider, aiCalls, ops>>

\* lines 152-154: without a historyId in the response the cursor is set to
\* the historyId of the notification
w_fallback_set(p) ==
    LET r == proc[p] IN
    /\ r.pc = "w_fallback_set"
    /\ cursor' = set_user_history_id(cursor, r.user, r.H)
    /\ Step(p, Respond([r EXCEPT !.wr = Append(@, r.H)], "200"))
    /\ UNCHANGED <<config, oauth, cred, store, provider, aiCalls, ops>>

\* ------------------------ the message loops, process_and_save_gmail_message
\* a message of the batch cannot be processed: the loops of the webhook and
\* of get_incremental_emails catch and go on, the loop of get_latest_emails
\* does not
MessageGetFails(r) ==
    LET t == [r EXCEPT !.res = "nofetch", !.fault = TRUE]
    IN  IF r.ctx = "full" THEN Raise(t) ELSE NextMsg([t EXCEPT !.failed = TRUE])

\* webhook.py 127-133 / gmail_client.py 188-193, 229-234, then
\* process_and_save_gmail_message lines 69-100: the message is fetched and
\* the store is asked whether its id is known
m_get(p) ==
    LET r == proc[p]
        m == Head(r.ids)
    IN
    /\ r.pc = "m_get"
    /\ \E fetched \in BOOLEAN :
          Step(p, IF ~fetched THEN MessageGetFails(r)
                  ELSE IF already_classified(m.id)
                       THEN NextMsg([r EXCEPT !.res = "skipped"])
                       ELSE [r EXCEPT !.pc = "m_classify", !.res = "pending"])
    /\ UNCHANGED <<config, oauth, cursor, cred, store, provider, aiCalls, ops>>

\* a message of a history batch was not persisted
Unsaved(r, res) ==
    [r EXCEPT !.res = res, !.failed = (@ \/ r.ctx # "full"), !.fault = TRUE]

\* process_and_save_gmail_message lines 102-131 and save_email lines 53-77:
\* summary and category are computed (classified: the category is not an
\* "Error:" string), then save_email looks the id up
m_classify(p) ==
    LET r == proc[p]
        m == Head(r.ids)
        t == [r EXCEPT !.ai = Min(@ + 1, MaxAi + 1)]
    IN
    /\ r.pc = "m_classify"
    /\ aiCalls' = [aiCalls EXCEPT ![<<r.user, m.id>>] = Min(@ + 1, MaxAi)]
    /\ \E classified \in BOOLEAN :
          Step(p, IF ~classified THEN NextMsg(Unsaved(t, "error"))
                  ELSE IF save_email_existing(m.id)
                       THEN NextMsg([t EXCEPT !.res = "duplicate"])
                       ELSE [t EXCEPT !.pc = "m_insert"])
    /\ UNCHANGED <<config, oauth, cursor, cred, store, provider, ops>>

\* the caller of process_and_save_gmail_message got the saved record back
Processed(r, m) ==
    IF r.ctx = "webhook"
    THEN [r EXCEPT !.count = @ + 1, !.saved = @ + 1, !.res = "saved"]
    ELSE [r EXCEPT !.emails = Append(@, m), !.saved = @ + 1, !.res = "saved"]

\* save_email lines 79-109: insert_one; a duplicate key or a storage error
\* makes save_email return False
m_insert(p) ==
    LET r == proc[p]
        m == Head(r.ids)
        rec == [gmail_id |-> m.id, user_id |-> r.user]
    IN
    /\ r.pc = "m_insert"
    /\ \E written \in BOOLEAN :
          IF ~written
          THEN /\ store' = store
               /\ Step(p, NextMsg(Unsaved(r, "error")))
          ELSE /\ store' = insert_one(store, rec)
               /\ Step(p, IF insert_one(store, rec) # store
                          THEN NextMsg(Processed(r, m))
                          ELSE NextMsg([r EXCEPT !.res = "dupkey"]))
    /\ UNCHANGED <<config, oauth, cursor, cred, provider, aiCalls, ops>>

\* --------------------------------------- fetch_and_process_new_emails
\* line 9 and get_latest_emails line 214: the cursor is read; with a cursor
\* the incremental fetch is used, without one the listing of unread mail
fp_read(p) ==
    LET r == proc[p]
        last == get_user_history_id(r.user)
    IN
    /\ r.pc = "fp_read"
    /\ Step(p, [r EXCEPT !.pc = "svc_creds", !.last = last, !.cur = 0,
                         !.ctx = IF last # 0 THEN "inc" ELSE "full",
                         !.first = (@ \/ (last = 0 /\ r.fp = 1))])
    /\ UNCHANGED <<config, oauth, cursor, cred, store, provider, aiCalls, ops>>

\* get_incremental_emails lines 150-184: as w_list, without maxResults
inc_list(p) ==
    LET r == proc[p] IN
    /\ r.pc = "inc_list"
    /\ IF r.last < provFloor[r.user]
       THEN Step(p, Raise([r EXCEPT !.rejected = r.last]))
       ELSE \E hasHid \in (IF hidOptional THEN BOOLEAN ELSE {TRUE}) :
               LET cur == IF hasHid THEN provHist[r.user] ELSE 0
                   ids == HistoryList(r.user, r.last)
                   t == [r EXCEPT !.cur = cur, !.ids = ids,
                                  !.nohid = (@ \/ ~hasHid)]
               IN  Step(p, IF ids = <<>>
                           THEN LoopEnd([t EXCEPT !.noopW = cur])
                           ELSE [t EXCEPT !.pc = "m_get"])
    /\ UNCHANGED <<config, oauth, cursor, cred, store, provider, aiCalls, ops>>

\* get_incremental_emails lines 165-169, 178-182, 201-207: the cursor is set
\* to the response's historyId and the processed emails are returned
inc_set(p) ==
    LET r == proc[p] IN
    /\ r.pc = "inc_set"
    /\ cursor' = set_user_history_id(cursor, r.user, r.cur)
    /\ Step(p, ReturnEmails([r EXCEPT !.wr = Append(@, r.cur)], r.emails))
    /\ UNCHANGED <<config, oauth, cred, store, provider, aiCalls, ops>>

\* get_latest_emails lines 218-228: the listing of unread messages
full_list(p) ==
    LET r == proc[p]
        ids == MessagesList(r.user, FetchMaxResults)
    IN
    /\ r.pc = "full_list"
    /\ Step(p, IF ids = <<>> THEN ReturnEmails([r EXCEPT !.resync = TRUE], <<>>)
               ELSE [r EXCEPT !.pc = "m_get", !.ids = ids, !.resync = TRUE])
    /\ UNCHANGED <<config, oauth, cursor, cred, store, provider, aiCalls, ops>>

\* the loop of lines 13-28 is over: lines 30-32
FetchLoopEnd(r) ==
    IF r.newh # 0 THEN [r EXCEPT !.pc = "fp_set"] ELSE FetchReturn(r)

\* fetch_and_process_new_emails lines 13-28, one email of the list that
\* get_latest_emails returned: it is classified and summarised again, and
\* (truthy: summary and category are non-empty) saved, counted and its
\* history_id tracked
fp_loop(p) ==
    LET r == proc[p] IN
    /\ r.pc = "fp_loop"
    /\ IF r.emails = <<>>
       THEN /\ Step(p, FetchLoopEnd(r))
            /\ UNCHANGED <<aiCalls, store>>
       ELSE LET e == Head(r.emails)
                rec == [gmail_id |-> e.id, user_id |-> r.user]
                t == [r EXCEPT !.emails = Tail(@), !.ai = Min(@ + 1, MaxAi + 1)]
            IN  /\ aiCalls' = [aiCalls EXCEPT ![<<r.user, e.id>>] = Min(@ + 1, MaxAi)]
                /\ \E truthy \in BOOLEAN :
                      IF truthy
                      THEN /\ store' = insert_one(store, rec)
                           /\ Step(p, [t EXCEPT !.count = @ + 1,
                                                !.saved = IF save_email_existing(e.id)
                                                          THEN @ ELSE @ + 1,
                                                !.newh = IF r.newh = 0 \/ e.hist > r.newh
                                                         THEN e.hist ELSE r.newh])
                      ELSE /\ store' = store
                           /\ Step(p, t)
    /\ UNCHANGED <<config, oauth, cursor, cred, provider, ops>>

\* lines 30-32: the cursor is set to the highest history_id seen
fp_set(p) ==
    LET r == proc[p] IN
    /\ r.pc = "fp_set"
    /\ cursor' = set_user_history_id(cursor, r.user, r.newh)
    /\ Step(p, FetchReturn([r EXCEPT !.wr = Append(@, r.newh)]))
    /\ UNCHANGED <<config, oauth, cred, store, provider, aiCalls, ops>>

\* ------------------------------------------------- setup_gmail_watch
\* gmail.py: the watch endpoint is called for a connected user
setup_gmail_watch(p) ==
    /\ FreeSlot(p)
    /\ ops < MaxOps
    /\ \E u \in registered :
          Step(p, [IdleProc EXCEPT !.op = "watch", !.user = u,
                                   !.pc = "svc_creds", !.ctx = "watch"])
    /\ ops' = ops + 1
    /\ UNCHANGED <<config, oauth, cursor, cred, store, provider, aiCalls>>

\* lines 298-319: users.watch answers with the mailbox's current historyId
watch_call(p) ==
    LET r == proc[p] IN
    /\ r.pc = "watch_call"
    /\ Step(p, [r EXCEPT !.pc = "watch_set", !.cur = provHist[r.user]])
    /\ UNCHANGED <<config, oauth, cursor, cred, store, provider, aiCalls, ops>>

\* lines 320-323: the historyId of the watch response becomes the cursor
watch_set(p) ==
    LET r == proc[p] IN
    /\ r.pc = "watch_set"
    /\ cursor' = set_user_history_id(cursor, r.user, r.cur)
    /\ Step(p, Respond([r EXCEPT !.wr = Append(@, r.cur)], "true"))
    /\ UNCHANGED <<config, oauth, cred, store, provider, aiCalls, ops>>

\* ------------------------------------------------------ the OAuth flow
\* an authorization URL that does not force the consent prompt
generate_auth_url_noprompt == [access_type |-> "offline", prompt |-> "none"]

\* generate_auth_url lines 62-66: the parameters of the authorization URL
generate_auth_url == [access_type |-> "offline", prompt |-> "consent"]

\* flow.fetch_token: the refresh_token of the provider's token response
\* (0 = none).  The provider issues a refresh token for offline access when
\* the user is prompted for consent or gives the first grant
fetch_token(u, params) ==
    IF params.access_type = "offline"
       /\ (params.prompt = "consent" \/ ~oauth.granted[u])
    THEN oauth.issued + 1 ELSE 0

\* handle_oauth_callback lines 223-260: the code is exchanged and the
\* credentials document is upserted with $set, refresh_token included
handle_oauth_callback(u) ==
    /\ u \in registered
    /\ oauth.issued < MaxTok
    /\ LET rt == fetch_token(u, generate_auth_url)
       IN  oauth' = [oauth EXCEPT !.rtoken[u] = rt,
                                  !.granted[u] = TRUE,
                                  !.issued = Max(oauth.issued, rt)]
    /\ cred' = [cred EXCEPT ![u] = "valid"]
    /\ UNCHANGED <<config, cursor, store, provider, aiCalls, ops, proc>>

\* revoke_user_access lines 388-393: the credentials document is deleted
revoke_user_access(u) ==
    /\ cred[u] # "none"
    /\ cred' = [cred EXCEPT ![u] = "none"]
    /\ oauth' = [oauth EXCEPT !.rtoken[u] = 0]
    /\ UNCHANGED <<config, cursor, store, provider, aiCalls, ops, proc>>

\* ------------------------------------------------------- oauth state
\* start_oauth_flow lines 59-67 and store_oauth_state lines 86-98: the flow
\* generates a new random state, which is inserted with the user and an
\* expiry five minutes ahead
store_oauth_state(u) ==
    /\ oauth.generated < MaxStates
    /\ LET state == oauth.generated + 1
       IN  oauth' = [oauth EXCEPT !.generated = state,
                                  !.states = @ \cup {[state |-> state,
                                                      clerk_user_id |-> u]}]
    /\ UNCHANGED <<config, cursor, cred, store, provider, aiCalls, ops, proc>>

\* time passes the expires_at of a stored state
state_expires(s) ==
    /\ s \in 1..oauth.generated
    /\ s \notin oauth.expired
    /\ oauth' = [oauth EXCEPT !.expired = @ \cup {s}]
    /\ UNCHANGED <<config, cursor, cred, store, provider, aiCalls, ops, proc>>

\* validate_and_clear_oauth_state is called with a state and a user
validate_and_clear_oauth_state(p) ==
    /\ FreeSlot(p)
    /\ ops < MaxOps
    /\ \E s \in 1..MaxStates, u \in Users :
          Step(p, [IdleProc EXCEPT !.pc = "v_find", !.op = "validate",
                                   !.user = u, !.state = s])
    /\ ops' = ops + 1
    /\ UNCHANGED <<config, oauth, cursor, cred, store, provider, aiCalls>>

\* lines 134-151: find_one({"state", "clerk_user_id"}); no document: False
v_find(p) ==
    LET r == proc[p]
        found == [state |-> r.state, clerk_user_id |-> r.user] \in oauth.states
    IN
    /\ r.pc = "v_find"
    /\ Step(p, IF found THEN [r EXCEPT !.pc = "v_delete", !.doc = TRUE]
                ELSE Respond(r, "false"))
    /\ UNCHANGED <<config, oauth, cursor, cred, store, provider, aiCalls, ops>>

\* lines 161-182: an expired document is deleted and the answer is False;
\* otherwise the document is deleted (delete_one by _id, whether or not it
\* is still there) and the answer is True
v_delete(p) ==
    LET r == proc[p]
        valid == r.state \notin oauth.expired
    IN
    /\ r.pc = "v_delete"
    /\ oauth' = [oauth EXCEPT
                   !.states = @ \ {[state |-> r.state, clerk_user_id |-> r.user]},
                   !.accepted[r.state] = IF valid THEN Min(@ + 1, 2) ELSE @]
    /\ Step(p, Respond(r, IF valid THEN "true" ELSE "false"))
    /\ UNCHANGED <<config, cursor, cred, store, provider, aiCalls, ops>>

\* --------------------------------------------- retry-protected loop
\* the expensive_models table of should_allow_retry
expensive_models(model) ==
    CASE model = "gpt-4" -> "gpt-3.5-turbo"
      [] model = "gpt-4-turbo" -> "gpt-3.5-turbo"
      [] model = "claude-3-opus" -> "claude-3-haiku"
      [] model = "gemini-2.0-flash" -> "gemini-1.5-flash"
      [] OTHER -> "None"

Models == {"gpt-4", "gpt-4-turbo", "claude-3-opus", "gemini-2.0-flash",
           "gpt-3.5-turbo"}

\* the retry limit is tested with > instead of >=
should_allow_retry_gt(max_cost_per_trace, current_retry_count, cost_so_far, model) ==
    IF current_retry_count > MaxRetries
    THEN [allow |-> FALSE, reason |-> "Excessive retry attempts",
          fallback_model |-> "None"]
    ELSE IF cost_so_far >= max_cost_per_trace
    THEN [allow |-> FALSE, reason |-> "Cost threshold exceeded",
          fallback_model |-> "None"]
    ELSE [allow |-> TRUE, reason |-> "",
          fallback_model |-> IF current_retry_count > 0
                             THEN expensive_models(model) ELSE "None"]

\* RetryLoopDetector.should_allow_retry lines 114-152; max_cost_per_trace is
\* the detector's policy value budget_limits.max_retry_cost_per_trace
should_allow_retry(max_cost_per_trace, current_retry_count, cost_so_far, model) ==
    IF current_retry_count >= MaxRetries
    THEN [allow |-> FALSE, reason |-> "Excessive retry attempts",
          fallback_model |-> "None"]
    ELSE IF cost_so_far >= max_cost_per_trace
    THEN [allow |-> FALSE, reason |-> "Cost threshold exceeded",
          fallback_model |-> "None"]
    ELSE [allow |-> TRUE, reason |-> "",
          fallback_model |-> IF current_retry_count > 0
                             THEN expensive_models(model) ELSE "None"]

\* classify_email_with_retry_protection lines 181-193: the loop condition,
\* the decision, and the model of the attempt: the decision's
\* fallback_model entry, which is always present and None when no fallback
\* is suggested
r_decide(p) ==
    LET r == proc[p]
        t == r.retry
        d == should_allow_retry(t.max_cost_per_trace, t.retry_count,
                                t.total_cost, t.model)
    IN
    /\ r.pc = "r_decide"
    /\ Step(p, IF t.retry_count <= 3 /\ d.allow
                THEN [r EXCEPT !.pc = "r_attempt", !.retry.allow = TRUE,
                               !.retry.current_model = d.fallback_model]
                ELSE [Respond(r, "none") EXCEPT !.retry.allow = FALSE,
                                                !.retry.returned = "None"])
    /\ UNCHANGED <<config, oauth, cursor, cred, store, provider, aiCalls, ops>>

\* lines 195-245: one attempt.  It succeeds or fails at random; computing
\* the cost of a success raises TypeError when current_model is None, which
\* the handler treats as a failed attempt.  A success returns the result; a
\* failure counts the retry and its cost
r_attempt(p) ==
    LET r == proc[p]
        t == r.retry
    IN
    /\ r.pc = "r_attempt"
    /\ \E success \in BOOLEAN :
          IF success /\ t.current_model # "None"
          THEN Step(p, [Respond(r, "none") EXCEPT
                          !.retry.attempts = @ + 1,
                          !.retry.total_cost =
                              @ + (IF t.current_model = "gpt-3.5-turbo"
                                   THEN CheapCost ELSE FullCost),
                          !.retry.returned = "result_log"])
          ELSE LET f == [r EXCEPT !.retry.attempts = @ + 1,
                                  !.retry.retry_count = @ + 1,
                                  !.retry.total_cost = @ + FailedCost]
               IN  Step(p, IF f.retry.retry_count > 3
                           THEN [Respond(f, "none") EXCEPT !.retry.returned = "None"]
                           ELSE [f EXCEPT !.pc = "r_decide"])
    /\ UNCHANGED <<config, oauth, cursor, cred, store, provider, aiCalls, ops>>

\* ------------------------------------------------------ gmail_parser
\* base64url body data: nothing, "<p>hi</p>", "yo", and a string that is
\* not base64
Data == {"", "PHA-aGk8L3A-", "eW8="}
BadData == "a"

SeqUpTo(S, n) == UNION {[1..k -> S] : k \in 0..n}

Leaf == [mimeType : {"text/html", "text/plain"}, data : Data, parts : {<<>>}]

Multipart == [mimeType : {"multipart/alternative"}, data : {""},
              parts : SeqUpTo(Leaf, MaxSub)]

Payloads ==
    [has_parts : {TRUE}, mimeType : {"multipart/mixed"}, data : {""},
     parts : SeqUpTo(Leaf \cup Multipart, MaxParts)]
    \cup [has_parts : {FALSE}, mimeType : {"text/html", "text/plain"},
          data : Data \cup {BadData}, parts : {<<>>}]

\* decode_email_body lines 7-25: empty data gives "", base64url text is
\* decoded, anything else gives the decoding-error text
decode_email_body(data) ==
    CASE data = "" -> ""
      [] data = "PHA-aGk8L3A-" -> "<p>hi</p>"
      [] data = "eW8=" -> "yo"
      [] OTHER -> "[Decoding Error]"

\* clean_plain_text lines 66-89: entities, artifacts and whitespace; the
\* texts at hand have none, the markup stays
clean_plain_text(text) == text

\* clean_html lines 91-117: the text content of the markup
clean_html(html_content) ==
    IF html_content = "<p>hi</p>" THEN "hi" ELSE clean_plain_text(html_content)

\* Python truth of a str-or-None value
Truthy(x) == x \notin {"", "None"}

\* find_parts lines 32-53, the loop from its current position on:
\* html_content and plain_content are overwritten by each text part, and a
\* multipart part whose own search found something ends the search
RECURSIVE find_parts(_, _, _)
find_parts(parts, html_content, plain_content) ==
    IF parts = <<>>
    THEN IF Truthy(html_content) THEN html_content ELSE plain_content
    ELSE LET part == Head(parts)
             decoded == decode_email_body(part.data)
         IN  CASE part.mimeType = "text/html" ->
                    find_parts(Tail(parts), clean_html(decoded), plain_content)
               [] part.mimeType = "text/plain" ->
                    find_parts(Tail(parts), html_content, clean_plain_text(decoded))
               [] part.mimeType = "multipart/alternative" ->
                    LET sub_result == find_parts(part.parts, "None", "None")
                    IN  IF Truthy(sub_result) THEN sub_result
                        ELSE find_parts(Tail(parts), html_content, plain_content)
               [] OTHER -> find_parts(Tail(parts), html_content, plain_content)

\* extract_email_body lines 55-64
extract_email_body(payload) ==
    IF payload.has_parts
    THEN LET result == find_parts(payload.parts, "None", "None")
         IN  IF Truthy(result) THEN result ELSE "[No content found]"
    ELSE decode_email_body(payload.data)

\* the parser is applied to the payload of a fetched message
x_extract(p) ==
    LET r == proc[p] IN
    /\ r.pc = "x_extract"
    /\ Step(p, [Respond(r, "none") EXCEPT !.body = extract_email_body(r.payload)])
    /\ UNCHANGED <<config, oauth, cursor, cred, store, provider, aiCalls, ops>>

\* --------------------------------------------------- storage failures
\* a read or write of users.last_history_id raises (get_user_history_id and
\* set_user_history_id catch nothing): inside the try of the webhook the
\* handler falls back, inside get_incremental_emails the function returns
\* [], inside fetch_and_process_new_emails the exception reaches the caller,
\* which catches it only at the call of line 149
cursor_store_fails(p) ==
    LET r == proc[p] IN
    /\ r.op = "webhook"
    /\ r.pc \in {"w_read", "w_set", "inc_set", "fp_read", "fp_set"}
    /\ Step(p, CASE r.pc \in {"w_read", "w_set"} -> Raise(r)
                 [] r.pc = "inc_set" -> ReturnEmails(r, <<>>)
                 [] OTHER -> IF r.path = "149" THEN EnterFetch(r, "159")
                             ELSE Respond(r, "500"))
    /\ UNCHANGED <<config, oauth, cursor, cred, store, provider, aiCalls, ops>>

\* ------------------------------------------------------ specification
\* the mailbox provider
Provider ==
    \/ \E u \in Users : ProviderAddMessage(u)
    \/ \E u \in Users : ProviderTouch(u)
    \/ \E u \in Users : ProviderExpireHistory(u)

\* the steps of a request of a user who has a cursor, credential valid
Incremental(p) ==
    \/ gmail_push_webhook(p)
    \/ setup_gmail_watch(p)
    \/ Finish(p)
    \/ svc_creds(p)
    \/ w_read(p)
    \/ w_list(p)
    \/ w_set(p)
    \/ m_get(p)
    \/ m_classify(p)
    \/ m_insert(p)
    \/ fp_read(p)
    \/ inc_list(p)
    \/ inc_set(p)
    \/ fp_loop(p)
    \/ fp_set(p)
    \/ watch_call(p)
    \/ watch_set(p)

\* the steps of a request with a valid credential
Sync(p) == Incremental(p) \/ full_list(p)

\* the steps of get_valid_access_token for a token found expired
Refresh(p) ==
    \/ tok_expired(p)
    \/ tok_find(p)
    \/ tok_post(p)
    \/ tok_update(p)
    \/ svc_creds2(p)

\* the steps of get_valid_access_token
Token(p) == Refresh(p) \/ tok_read(p)

\* one request at a time, credentials valid throughout
Next == Provider \/ Sync(1)

Spec == Init /\ [][Next]_vars

\* one request at a time, with a provider whose history responses may lack
\* the historyId field
InitLenient ==
    /\ registered = {"u1"}
    /\ hidOptional = TRUE
    /\ cursor = [u \in Users |-> 0]
    /\ cred = [u \in Users |-> IF u \in registered THEN "valid" ELSE "none"]
    /\ oauth = InitOAuth
    /\ store = <<>>
    /\ provHist = [u \in Users |-> 1]
    /\ provFloor = [u \in Users |-> 1]
    /\ mailbox = [u \in Users |-> {}]
    /\ aiCalls = [k \in Users \X (1..MaxMsgId) |-> 0]
    /\ ops = 0
    /\ proc = [p \in Procs |-> IdleProc]

NextLenient == Provider \/ Sync(1) \/ w_fallback_set(1)

SpecLenient == InitLenient /\ [][NextLenient]_vars

\* overlapping requests, credentials valid throughout.  The watch set-up
\* has seeded the cursor and one message has arrived since.
InitConc ==
    /\ registered = {"u1"}
    /\ hidOptional = FALSE
    /\ cursor = [u \in Users |-> IF u \in registered THEN 1 ELSE 0]
    /\ cred = [u \in Users |-> IF u \in registered THEN "valid" ELSE "none"]
    /\ oauth = InitOAuth
    /\ store = <<>>
    /\ provHist = [u \in Users |-> IF u \in registered THEN 2 ELSE 1]
    /\ provFloor = [u \in Users |-> 1]
    /\ mailbox = [u \in Users |-> IF u \in registered
                                  THEN {[id |-> 1, hist |-> 2]} ELSE {}]
    /\ aiCalls = [k \in Users \X (1..MaxMsgId) |-> 0]
    /\ ops = 1
    /\ proc = [p \in Procs |-> IdleProc]

NextConc ==
    \/ \E u \in Users : ProviderAddMessage(u)
    \/ \E p \in Procs : Incremental(p)

SpecConc == InitConc /\ [][NextConc]_vars

\* overlapping callers of get_gmail_service_for_user while the credential
\* expires; the mailbox is left alone
NextToken ==
    \/ \E u \in Users : TokenExpire(u)
    \/ \E p \in Procs : setup_gmail_watch(p)
    \/ \E p \in Procs : svc_creds(p)
    \/ \E p \in Procs : Token(p)
    \/ \E p \in Procs : watch_call(p)
    \/ \E p \in Procs : watch_set(p)
    \/ \E p \in Procs : Finish(p)

SpecToken == Init /\ [][NextToken]_vars

\* one request at a time for a user whose credential is expired or missing
\* when the first request arrives; the token endpoint may grant or reject
InitAuth ==
    /\ registered = {"u1"}
    /\ hidOptional = FALSE
    /\ cursor \in {[u \in Users |-> IF u \in registered THEN c ELSE 0] : c \in 0..1}
    /\ cred \in {[u \in Users |-> IF u \in registered THEN c ELSE "none"] :
                    c \in {"expired", "none"}}
    /\ oauth = InitOAuth
    /\ store = <<>>
    /\ provHist = [u \in Users |-> IF u \in registered THEN 2 ELSE 1]
    /\ provFloor = [u \in Users |-> 1]
    /\ mailbox = [u \in Users |-> IF u \in registered
                                  THEN {[id |-> 1, hist |-> 2]} ELSE {}]
    /\ aiCalls = [k \in Users \X (1..MaxMsgId) |-> 0]
    /\ ops = 1
    /\ proc = [p \in Procs |-> IdleProc]

NextAuth ==
    \/ \E u \in Users : TokenExpire(u)
    \/ Sync(1)
    \/ Refresh(1)

SpecAuth == InitAuth /\ [][NextAuth]_vars

\* one request at a time, credentials valid, over a cursor store whose
\* operations may fail
NextFaulty ==
    \/ \E u \in Users : ProviderAddMessage(u)
    \/ Sync(1)
    \/ cursor_store_fails(1)

SpecFaulty == Init /\ [][NextFaulty]_vars

\* the steps of one webhook delivery
Delivery(p) ==
    \/ gmail_push_webhook(p)
    \/ svc_creds(p)
    \/ w_read(p)
    \/ w_list(p)
    \/ w_set(p)
    \/ m_get(p)
    \/ m_classify(p)
    \/ m_insert(p)
    \/ fp_read(p)
    \/ inc_list(p)
    \/ inc_set(p)
    \/ full_list(p)
    \/ fp_loop(p)
    \/ fp_set(p)

\* two deliveries in sequence over a mailbox that does not change: the
\* second is handled once the first is answered, and the first keeps its
\* slot, so that its record stays
InitTwice ==
    /\ registered = {"u1"}
    /\ hidOptional = FALSE
    /\ cursor \in {[u \in Users |-> IF u \in registered THEN c ELSE 0] : c \in 0..1}
    /\ cred = [u \in Users |-> IF u \in registered THEN "valid" ELSE "none"]
    /\ oauth = InitOAuth
    /\ store = <<>>
    /\ provHist = [u \in Users |-> IF u \in registered THEN 3 ELSE 1]
    /\ provFloor = [u \in Users |-> 1]
    /\ mailbox \in {[u \in Users |-> IF u \in registered THEN mb ELSE {}] :
                       mb \in {{}, {[id |-> 1, hist |-> 2]},
                                {[id |-> 1, hist |-> 2], [id |-> 2, hist |-> 3]}}}
    /\ aiCalls = [k \in Users \X (1..MaxMsgId) |-> 0]
    /\ ops = 0
    /\ proc = [p \in Procs |-> IdleProc]

NextTwice ==
    \/ Delivery(1)
    \/ proc[1].pc = "done" /\ Delivery(2)

SpecTwice == InitTwice /\ [][NextTwice]_vars

\* the credential of a user over its life: consent flow, expiry, refresh
\* by the callers of get_gmail_service_for_user, revocation
NextOAuth ==
    \/ \E u \in Users : handle_oauth_callback(u)
    \/ \E u \in Users : revoke_user_access(u)
    \/ \E u \in Users : TokenExpire(u)
    \/ \E p \in Procs : setup_gmail_watch(p)
    \/ \E p \in Procs : svc_creds(p)
    \/ \E p \in Procs : Token(p)
    \/ \E p \in Procs : watch_call(p)
    \/ \E p \in Procs : watch_set(p)
    \/ \E p \in Procs : Finish(p)

SpecOAuth == Init /\ [][NextOAuth]_vars

\* two connected users share the stores: u2 has a cursor and a stored
\* message with gmail id 2; u1's mailbox holds two messages, one of them
\* with that same id.  One delivery at a time, for either user; access
\* tokens expire and are refreshed
InitShared ==
    /\ registered = Users
    /\ hidOptional = FALSE
    /\ cursor \in {[u \in Users |-> IF u = "u1" THEN c ELSE 1] : c \in 0..1}
    /\ cred = [u \in Users |-> "expired"]
    /\ oauth = InitOAuth
    /\ store = <<[gmail_id |-> 2, user_id |-> "u2"]>>
    /\ provHist = [u \in Users |-> IF u = "u1" THEN 3 ELSE 2]
    /\ provFloor = [u \in Users |-> 1]
    /\ mailbox = [u \in Users |-> IF u = "u1"
                                  THEN {[id |-> 1, hist |-> 2], [id |-> 2, hist |-> 3]}
                                  ELSE {[id |-> 2, hist |-> 2]}]
    /\ aiCalls = [k \in Users \X (1..MaxMsgId) |-> 0]
    /\ ops = 1
    /\ proc = [p \in Procs |-> IdleProc]

NextShared ==
    \/ \E u \in Users : TokenExpire(u)
    \/ Delivery(1)
    \/ Refresh(1)

SpecShared == InitShared /\ [][NextShared]_vars

\* one call of classify_email_with_retry_protection, for every model and a
\* range of policy values of max_retry_cost_per_trace
InitRetry ==
    /\ registered = {"u1"}
    /\ hidOptional = FALSE
    /\ cursor = [u \in Users |-> 0]
    /\ cred = [u \in Users |-> IF u \in registered THEN "valid" ELSE "none"]
    /\ oauth = InitOAuth
    /\ store = <<>>
    /\ provHist = [u \in Users |-> 1]
    /\ provFloor = [u \in Users |-> 1]
    /\ mailbox = [u \in Users |-> {}]
    /\ aiCalls = [k \in Users \X (1..MaxMsgId) |-> 0]
    /\ ops = 0
    /\ \E model \in Models, limit \in {0, 1, 2, 3, DefaultMaxCost} :
          proc = [p \in Procs |->
                    IF p = 1
                    THEN [IdleProc EXCEPT !.pc = "r_decide",
                                          !.op = "classify",
                                          !.retry.model = model,
                                          !.retry.max_cost_per_trace = limit]
                    ELSE IdleProc]

NextRetry == r_decide(1) \/ r_attempt(1)

SpecRetry == InitRetry /\ [][NextRetry]_vars /\ WF_vars(NextRetry)

\* one call of extract_email_body, for every payload of the bounded shapes
InitParse ==
    /\ registered = {"u1"}
    /\ hidOptional = FALSE
    /\ cursor = [u \in Users |-> 0]
    /\ cred = [u \in Users |-> IF u \in registered THEN "valid" ELSE "none"]
    /\ oauth = InitOAuth
    /\ store = <<>>
    /\ provHist = [u \in Users |-> 1]
    /\ provFloor = [u \in Users |-> 1]
    /\ mailbox = [u \in Users |-> {}]
    /\ aiCalls = [k \in Users \X (1..MaxMsgId) |-> 0]
    /\ ops = 0
    /\ \E payload \in Payloads :
          proc = [p \in Procs |->
                    IF p = 1
                    THEN [IdleProc EXCEPT !.pc = "x_extract", !.op = "extract",
                                          !.payload = payload]
                    ELSE IdleProc]

NextParse == x_extract(1)

SpecParse == InitParse /\ [][NextParse]_vars

\* the OAuth state store: flows are started, states expire and are validated
\* by concurrent callbacks
NextState ==
    \/ \E u \in Users : store_oauth_state(u)
    \/ \E s \in 1..MaxStates : state_expires(s)
    \/ \E p \in Procs : validate_and_clear_oauth_state(p)
    \/ \E p \in Procs : v_find(p)
    \/ \E p \in Procs : v_delete(p)
    \/ \E p \in Procs : Finish(p)

SpecState == Init /\ [][NextState]_vars

\* ============================================================ properties
Stored(u, id) ==
    \E i \in DOMAIN store : store[i] = [gmail_id |-> id, user_id |-> u]

\* C1 -- cursor monotonicity: no step replaces a user's stored watermark by
\* an older one (the stored last_history_id is non-decreasing).
CursorMonotone ==
    [][\A u \in Users : cursor'[u] >= cursor[u]]_vars

\* C2 -- the cursor is never advanced past unprocessed data: whenever a user
\* who had a cursor gets a new watermark W, every message the provider added
\* after the previous cursor and up to W is in the MessageStore.
CursorNotPastUnprocessed ==
    [][\A u \in Users :
          (cursor[u] # 0 /\ cursor'[u] # cursor[u]) =>
             \A m \in mailbox[u] :
                (m.hist > cursor[u] /\ m.hist <= cursor'[u]) =>
                   \E i \in DOMAIN store' :
                      store'[i] = [gmail_id |-> m.id, user_id |-> u]]_vars

\* C3 -- partial-failure non-advancement: once a message of a request's
\* history batch has failed (fetch raised, classification failed, record not
\* persisted), the stored cursor is left as it is.
PartialFailureKeepsCursor ==
    [][(\E p \in Procs : proc[p].failed) => cursor' = cursor]_vars

\* C4 -- per-user exclusion: two deliveries for the same user are never both
\* fetching history, processing messages or writing the cursor.
InSync(p) ==
    /\ proc[p].op = "webhook"
    /\ proc[p].pc \in {"w_list", "m_get", "m_classify", "m_insert", "w_set",
                       "w_fallback_set", "inc_list", "inc_set", "full_list",
                       "fp_loop", "fp_set"}

PerUserExclusion ==
    \A p, q \in Procs :
       (p # q /\ InSync(p) /\ InSync(q)) => proc[p].user # proc[q].user

\* C5 -- idempotence: a call of process_and_save_gmail_message for a gmail_id
\* that is already stored returns the skipped result without touching the
\* store, and the store holds exactly one record of that id.
OneRecordPerId ==
    \A i, j \in DOMAIN store : store[i].gmail_id = store[j].gmail_id => i = j

SecondCallSkips ==
    \A p \in Procs :
       (/\ proc[p].pc = "m_get"
        /\ proc'[p] # proc[p]
        /\ proc'[p].res # "nofetch"
        /\ \E i \in DOMAIN store : store[i].gmail_id = Head(proc[p].ids).id)
       => /\ proc'[p].res = "skipped"
          /\ store' = store
          /\ Cardinality({i \in DOMAIN store' :
                             store'[i].gmail_id = Head(proc[p].ids).id}) = 1

Idempotence == [][SecondCallSkips]_vars /\ []OneRecordPerId

IdempotenceWitness ==
    \E p \in Procs :
       /\ proc[p].res = "skipped"
       /\ \E i \in DOMAIN store : store[i].user_id = proc[p].user

\* C6 -- exactly-once hand-off: classify_email and summarize_to_bullets run
\* at most once for a message that ends up stored.
ExactlyOnceHandOff ==
    \A u \in Users, id \in 1..MaxMsgId :
       Stored(u, id) => aiCalls[<<u, id>>] <= 1

\* C7 -- stale-cursor recovery: a request whose history fetch was rejected
\* because the cursor is too old does not end with the user still on the
\* rejected cursor.
StaleCursorRecovery ==
    \A p \in Procs :
       (proc[p].pc = "done" /\ proc[p].rejected # 0)
       => cursor[proc[p].user] # proc[p].rejected

\* C8 -- single-flight refresh: at no time are two refresh requests of the
\* same user outstanding (answered by the token endpoint, not yet stored).
SingleFlightRefresh ==
    \A p, q \in Procs :
       (p # q /\ proc[p].pc = "tok_update" /\ proc[q].pc = "tok_update")
       => proc[p].user # proc[q].user

\* C9 -- first sync: a delivery that found no cursor has stored one when it
\* is answered.
FirstSyncSeedsCursor ==
    \A p \in Procs :
       (proc[p].pc = "done" /\ proc[p].op = "webhook" /\ proc[p].first)
       => cursor[proc[p].user] # 0

\* C10 -- no-op delta: a sync run whose history response lists no message
\* and reports watermark W makes no AI call and no store write, and when the
\* request is answered the stored cursor is W.
NoOpDelta ==
    \A p \in Procs :
       proc[p].noopW # 0 =>
          /\ proc[p].ai = 0
          /\ proc[p].saved = 0
          /\ proc[p].pc = "done" => cursor[proc[p].user] = proc[p].noopW

NoOpDeltaWitness ==
    \E p \in Procs :
       /\ proc[p].pc = "done"
       /\ proc[p].noopW > 1
       /\ cursor[proc[p].user] = proc[p].noopW
       /\ store # <<>>

\* C11 -- happy path: a delivery for a user with a cursor whose history
\* response lists message ids none of which is stored, and which fetches,
\* classifies and saves each of them without failure, is answered with
\* every listed message in the MessageStore exactly once and the stored
\* cursor equal to the historyId of that history response.
HappyPath ==
    \A p \in Procs :
       (/\ proc[p].pc = "done"
        /\ proc[p].op = "webhook"
        /\ proc[p].path = "none"
        /\ proc[p].listed # {}
        /\ proc[p].fresh
        /\ ~proc[p].failed)
       => /\ \A id \in proc[p].listed :
                Cardinality({i \in DOMAIN store :
                                store[i].gmail_id = id}) = 1
          /\ \A id \in proc[p].listed : Stored(proc[p].user, id)
          /\ cursor[proc[p].user] = proc[p].cur
          /\ proc[p].status = "200"
          /\ proc[p].count = Cardinality(proc[p].listed)

HappyPathWitness ==
    \E p \in Procs :
       /\ proc[p].pc = "done"
       /\ proc[p].op = "webhook"
       /\ proc[p].path = "none"
       /\ Cardinality(proc[p].listed) = 2
       /\ proc[p].fresh
       /\ ~proc[p].failed
       /\ proc[p].count = 2
       /\ cursor[proc[p].user] = proc[p].cur

\* C12 -- auth failure aborts cleanly: as long as a request has obtained no
\* valid access token (credential missing, or expired and the refresh
\* rejected), none of its steps stores a message or changes a cursor, and
\* it is answered with the cursor of its user as it was.
AuthFailureAborts ==
    [][\A p \in Procs :
          (proc'[p] # proc[p] /\ ~proc'[p].authed)
          => (store' = store /\ cursor' = cursor)]_vars

AuthFailureAbortsWitness ==
    \E p \in Procs :
       /\ proc[p].pc = "done"
       /\ proc[p].op = "webhook"
       /\ proc[p].H # 0
       /\ ~proc[p].authed
       /\ proc[p].posts > 0
       /\ proc[p].fp > 0
       /\ cursor[proc[p].user] = 1
       /\ store = <<>>

\* C13 -- rejection at the boundary: a webhook request whose body is not
\* JSON, whose message.data is not base64-encoded JSON, which carries no
\* email address, or whose address belongs to no user, is answered with
\* status 400 or 404 and an error body, and the step that answers it leaves
\* every cursor, credential and MessageStore record as it was.
Defect(body, header) ==
    \/ body.shape \in {"badjson", "badb64", "b64text"}
    \/ body.email = NoUser /\ header = NoUser
    \/ body.email # NoUser /\ body.email \notin registered
    \/ body.email = NoUser /\ header \notin registered

DefectRejected ==
    \A body \in Bodies, header \in Users \cup {NoUser} :
       Defect(body, header) =>
          LET r == WebhookEntry(body, header)
          IN  /\ r.pc = "done"
              /\ r.status \in {"400", "404"}
              /\ r.err # ""

RejectionChangesNothing ==
    \A p \in Procs :
       (proc[p].pc = "idle" /\ proc'[p].status \in {"400", "404"})
       => UNCHANGED <<cursor, cred, oauth, store>>

AlwaysAcknowledged ==
    \A p \in Procs :
       (proc[p].pc = "done" /\ proc[p].op = "webhook" /\ proc[p].user # NoUser)
       => proc[p].status = "200"

\* C15 -- envelope equivalence: for every notification P and header, the
\* handler starts the same request, or gives the same error response,
\* whether P is delivered directly or base64-encoded in message.data; from
\* the same state the two deliveries therefore have the same responses and
\* the same changes of cursor and MessageStore.
Direct(P) == [shape |-> "direct", email |-> P.email, hid |-> P.hid]

Enveloped(P) == [shape |-> "pubsub", email |-> P.email, hid |-> P.hid]

EnvelopeEquivalence ==
    \A P \in [email : Users \cup {NoUser}, hid : 0..MaxHist],
       header \in Users \cup {NoUser} :
       /\ json_loads(b64decode(MessageData(Enveloped(P))).val) =
             [ok |-> TRUE, val |-> P]
       /\ WebhookEntry(Enveloped(P), header) = WebhookEntry(Direct(P), header)

EnvelopeEquivalenceWitness ==
    \E p \in Procs, P \in [email : Users, hid : 1..MaxHist] :
       /\ proc[p].pc = "svc_creds"
       /\ P.email \in registered
       /\ proc[p] = [WebhookEntry(Enveloped(P), NoUser) EXCEPT !.st0 = Len(store)]
       /\ store # <<>>

\* C16 -- at-least-once delivery: when a notification is delivered a second
\* time after the first delivery was answered with success, none of its
\* messages having failed, and the mailbox has not changed, no step of the
\* second delivery stores a message or changes the cursor.
Redelivered ==
    /\ proc[1].pc = "done"
    /\ proc[1].op = "webhook"
    /\ proc[1].status = "200"
    /\ ~proc[1].fault
    /\ proc[2].op = "webhook"
    /\ proc[2].user = proc[1].user
    /\ proc[2].H = proc[1].H

RedeliveryChangesNothing ==
    [][(Redelivered /\ proc'[2] # proc[2])
       => (store' = store /\ cursor' = cursor)]_vars

\* C17 -- AI failure does not abort ingestion: when the classification of a
\* message that is not yet stored fails, process_and_save_gmail_message
\* still persists the message: the message is in the store when the call
\* returns.
AiFailureStillPersists ==
    [][\A p \in Procs :
          (proc[p].pc = "m_classify" /\ proc'[p].res = "error")
          => \E i \in DOMAIN store' :
                store'[i].gmail_id = Head(proc[p].ids).id]_vars

\* C18 -- refresh failure is surfaced, not retried: the step in which the
\* token endpoint rejects a refresh leaves the stored credential as it was,
\* and a request that had a refresh rejected has called the token endpoint
\* once.
RejectionKeepsCredential ==
    \A p \in Procs :
       (proc[p].pc = "tok_post" /\ proc'[p].refused) => cred' = cred

RefreshNotRetried ==
    /\ [][RejectionKeepsCredential]_vars
    /\ [](\A p \in Procs : proc[p].refused => proc[p].posts <= 1)

\* C19 -- credential invariant: a step that leaves the credentials document
\* of a user in place (a refresh, a repeated OAuth callback) does not
\* replace a stored non-empty refresh_token by an empty one.
RefreshTokenKept ==
    [][\A u \in Users :
          (oauth.rtoken[u] # 0 /\ cred'[u] # "none") => oauth'.rtoken[u] # 0]_vars

RefreshTokenKeptWitness ==
    /\ oauth.rtoken["u1"] > 1
    /\ cred["u1"] = "valid"
    /\ \E p \in Procs : proc[p].posts > 0 /\ proc[p].authed

\* C20 -- insert-if-absent: with overlapping calls of
\* process_and_save_gmail_message the store never holds two records of one
\* gmail_id, no step removes or changes a record, a call reports a save
\* exactly when its insert added the record, and a call whose insert found
\* the key taken (it passed the existence check and lost the race) reports
\* none and leaves the store as it is.
AppendOnly ==
    /\ Len(store') >= Len(store)
    /\ \A i \in DOMAIN store : store'[i] = store[i]

SaveReportedByInserter ==
    \A p \in Procs :
       (proc[p].pc = "m_insert" /\ proc'[p] # proc[p]) =>
          LET id == Head(proc[p].ids).id
              before == \E i \in DOMAIN store : store[i].gmail_id = id
              after == \E i \in DOMAIN store' : store'[i].gmail_id = id
          IN  /\ proc'[p].res \in {"saved", "dupkey", "error"}
              /\ proc'[p].res = "saved" <=> (~before /\ after)
              /\ proc'[p].res = "dupkey" => (before /\ store' = store)

InsertIfAbsent ==
    /\ [](\A i, j \in DOMAIN store :
             store[i].gmail_id = store[j].gmail_id => i = j)
    /\ [][AppendOnly]_vars
    /\ [][SaveReportedByInserter]_vars

InsertIfAbsentWitness ==
    \E p, q \in Procs :
       /\ p # q
       /\ proc[p].res = "saved"
       /\ proc[q].res = "dupkey"
       /\ proc[p].user = proc[q].user
       /\ Len(store) = 1

\* C21 -- a delivery with historyId H for a user with a stored cursor whose
\* history response lists no message writes the cursor exactly once and is
\* answered with success and processed 0.  As stated, the value written is
\* H:
EmptyDelta(p) ==
    /\ proc[p].pc = "done"
    /\ proc[p].op = "webhook"
    /\ proc[p].H # 0
    /\ proc[p].last # 0
    /\ proc[p].path = "none"
    /\ proc[p].listed = {}

MissingWatermarkResyncs ==
    \A p \in Procs :
       (proc[p].pc = "done" /\ proc[p].op = "webhook" /\ proc[p].nohid)
       => (proc[p].resync /\ proc[p].wr # <<>>)

\* C23 -- ordering within one sync run: a step that processes a message of
\* the batch (fetch, classification, save) is never taken after the run has
\* written the cursor.
ProcessingStep(p) ==
    /\ proc'[p] # proc[p]
    /\ \/ proc[p].pc \in {"m_get", "m_classify", "m_insert"}
       \/ proc[p].pc = "fp_loop" /\ proc[p].emails # <<>>

CursorWrittenAfterBatch ==
    [][\A p \in Procs :
          ProcessingStep(p) => Len(proc[p].wr) = proc[p].wr0]_vars

\* C24 -- the processed value of a webhook's success response is the number
\* of messages that were newly saved to the store while the webhook was
\* handled, on every path (one request at a time: nothing else writes the
\* store meanwhile)
ProcessedCountsSaved ==
    \A p \in Procs :
       (proc[p].pc = "done" /\ proc[p].op = "webhook" /\ proc[p].status = "200")
          => proc[p].count = Len(store) - proc[p].st0

\* C25 -- an OAuth state is single-use: validate_and_clear_oauth_state
\* returns True for a stored state at most once, concurrent validations
\* included
StateSingleUse ==
    \A s \in 1..MaxStates : oauth.accepted[s] <= 1

\* the records of user u in the emails collection, in insertion order
MessagesOf(st, u) == SelectSeq(st, LAMBDA rec : rec.user_id = u)

\* C26 -- frame: no step of the handling of a webhook for user A (token
\* refresh and cursor updates included) changes the cursor, the credential
\* or the stored messages of another user B
OtherUsersUntouched ==
    [][\A p \in Procs :
          (proc[p].op = "webhook" /\ proc'[p] # proc[p]) =>
             \A B \in Users \ {proc[p].user} :
                /\ cursor'[B] = cursor[B]
                /\ cred'[B] = cred[B]
                /\ oauth'.rtoken[B] = oauth.rtoken[B]
                /\ MessagesOf(store', B) = MessagesOf(store, B)]_vars

\* a webhook for u1 has refreshed u1's token, saved a message and written
\* u1's cursor, while u2 has a cursor, an expired credential and a message
OtherUsersUntouchedWitness ==
    /\ proc[1].pc = "done" /\ proc[1].op = "webhook" /\ proc[1].user = "u1"
    /\ proc[1].posts > 0 /\ proc[1].wr # <<>>
    /\ MessagesOf(store, "u1") # <<>>
    /\ cursor["u2"] = 1 /\ cred["u2"] = "expired"
    /\ MessagesOf(store, "u2") # <<>>

\* C27 -- deduplication does not leak across users: when a webhook for
\* user A has been handled without a failure, every message its history
\* response listed is stored for A, also when the store already held a
\* message with the same gmail id that belongs to another user
DedupePerUser ==
    \A p \in Procs :
       (/\ proc[p].pc = "done" /\ proc[p].op = "webhook"
        /\ proc[p].status = "200" /\ proc[p].path = "none"
        /\ ~proc[p].fault)
          => \A id \in proc[p].listed : Stored(proc[p].user, id)

\* C28 -- a webhook with a historyId for a user without stored cursor runs
\* fetch_and_process_new_emails exactly once and does not enter the
\* exception fallback when that sync succeeds
FirstSyncRunsOnce ==
    \A p \in Procs :
       (/\ proc[p].pc = "done" /\ proc[p].op = "webhook"
        /\ proc[p].H # 0 /\ proc[p].first /\ ~proc[p].fault)
          => proc[p].fp = 1 /\ proc[p].path = "149"

\* the retry-protected loop of slot p is in a consistent position
RetryLoopBounded(p) ==
    LET t == proc[p].retry
        d == should_allow_retry(t.max_cost_per_trace, t.retry_count,
                                t.total_cost, t.model)
    IN  /\ t.attempts <= 3
        /\ proc[p].pc = "r_attempt" =>
              /\ d.allow
              /\ t.retry_count < 3
              /\ t.total_cost < t.max_cost_per_trace

\* should_allow_retry denies at the retry limit and at the cost limit
DeniesAtLimits ==
    \A limit \in 0..DefaultMaxCost, c \in 0..(MaxRetries + 1),
       cost \in 0..(DefaultMaxCost + 1), m \in Models :
       (c >= 3 \/ cost >= limit) => ~should_allow_retry(limit, c, cost, m).allow

\* C29 -- the retry-protected classification loop terminates after at most
\* 3 attempts; an attempt is made only when should_allow_retry allowed it
\* for the loop's retry count, cost so far and model; should_allow_retry
\* denies once the retry count reaches 3 or the cost reaches the per-trace
\* limit
RetryLoopTerminates ==
    /\ [](\A p \in Procs : proc[p].op = "classify" => RetryLoopBounded(p))
    /\ []DeniesAtLimits
    /\ <>(proc[1].pc = "done")

\* three attempts have failed and the fourth was denied
RetryLoopTerminatesWitness ==
    /\ proc[1].pc = "done" /\ proc[1].op = "classify"
    /\ proc[1].retry.attempts = 3 /\ proc[1].retry.retry_count = 3
    /\ ~proc[1].retry.allow /\ proc[1].retry.returned = "None"

\* the text parts of a payload, nested ones included
TextParts(payload) ==
    IF ~payload.has_parts THEN {[mimeType |-> payload.mimeType, data |-> payload.data]}
    ELSE UNION {IF payload.parts[i].mimeType = "multipart/alternative"
                THEN {[mimeType |-> q.mimeType, data |-> q.data] :
                         q \in {payload.parts[i].parts[j] :
                                   j \in DOMAIN payload.parts[i].parts}}
                ELSE {[mimeType |-> payload.parts[i].mimeType,
                       data |-> payload.parts[i].data]} :
                i \in DOMAIN payload.parts}

\* the cleaned contents of the HTML parts and of the plain-text parts
HtmlContents(payload) ==
    {clean_html(decode_email_body(q.data)) :
        q \in {t \in TextParts(payload) : t.mimeType = "text/html"}} \ {""}

PlainContents(payload) ==
    {clean_plain_text(decode_email_body(q.data)) :
        q \in {t \in TextParts(payload) : t.mimeType = "text/plain"}} \ {""}

\* C30 -- body extraction: for every payload, single-part or nested,
\* extract_email_body returns the cleaned content of an HTML part when one
\* has content, otherwise the content of a plain-text part, and the
\* no-content marker when neither has content (never an empty body)
BodyPrefersHtml ==
    \A p \in Procs :
       (proc[p].pc = "done" /\ proc[p].op = "extract") =>
          LET payload == proc[p].payload
              body == proc[p].body
          IN  IF HtmlContents(payload) # {} THEN body \in HtmlContents(payload)
              ELSE IF PlainContents(payload) # {} THEN body \in PlainContents(payload)
              ELSE body = "[No content found]"
====
